---- MODULE Spec2Model ----
(***************************************************************************)
(* Model of the AI_ATRI weather services.                                  *)
(*                                                                         *)
(*   CWB8.1.py       polls the CWA open-data API and stores readings of    *)
(*                   one station in the table weather of CWB.db            *)
(*                   (variable cwb_weather, column obs_date UNIQUE).       *)
(*   weather_v8.1.py imports monthly CSV files into the table weather of   *)
(*                   weather_1021.db (variable csv_weather, no UNIQUE      *)
(*                   column) and sweeps a growing-degree-day comparison.   *)
(*                                                                         *)
(* A table is the sequence of its rows in insertion (rowid) order.         *)
(***************************************************************************)
EXTENDS Integers, Sequences, FiniteSets, TLC

VARIABLES
    process,            \* the program this behaviour follows: each is started on its own
    cwb_weather,        \* CWB.db, table weather: rows [obs_date, temperature, humidity]
    last_update_time,   \* CWB8.1.py global last_update_time
    stage,              \* how the latest job_fetch_and_save run ended
    inserted,           \* what insert_to_db returned in the latest run
    caller,             \* who started the latest run
    observed,           \* what the caller of the latest run got back
    served,             \* the document the API keeps serving, if it is a fixed one
    csv_weather,        \* weather_1021.db, table weather
    upload,             \* how process_csv ended in the latest POST /
    gdd                 \* latest answer of POST /gdd_compare

vars == <<process, cwb_weather, last_update_time, stage, inserted, caller, observed,
          served, csv_weather, upload, gdd>>

(***************************************************************************)
(* Bounds of the model.                                                    *)
(***************************************************************************)
MaxStations == 2

MaxTime == 2

(***************************************************************************)
(* Python values.                                                          *)
(***************************************************************************)
None == [t |-> "none"]

Num(n) == [t |-> "num", n |-> n]

Str(s) == [t |-> "str", s |-> s]

\* The numeric texts the model's payloads use, and the number float() reads.
NumericText == ("25" :> 25) @@ ("60" :> 60) @@ ("-99" :> (0 - 99))

\* float(v): [ok, n]; ok = FALSE is the exception float raises.
ToFloat(v) ==
    CASE v.t = "num" -> [ok |-> TRUE, n |-> v.n]
      [] v.t = "str" -> IF v.s \in DOMAIN NumericText
                        THEN [ok |-> TRUE, n |-> NumericText[v.s]]
                        ELSE [ok |-> FALSE, n |-> 0]
      [] OTHER -> [ok |-> FALSE, n |-> 0]

(***************************************************************************)
(* CWB8.1.py                                                               *)
(***************************************************************************)
STATION == "C0D680"

\* timezone(timedelta(hours=8))
TW_OFFSET == 8

\* The value the CWA API sends for a reading it does not have.
MissingValue == 0 - 99

\* An ISO-8601 timestamp: day and hour of the wall clock, seconds, and the
\* UTC offset in hours ("Z" is offset 0).
Iso(day, hour, sec, off) ==
    [t |-> "iso", day |-> day, hour |-> hour, sec |-> sec, off |-> off]

\* datetime.fromisoformat(..).astimezone(+08:00).strftime("%Y-%m-%d %H:%M")
LocalKey(ts) ==
    LET total == ts.day * 24 + ts.hour - ts.off + TW_OFFSET
    IN  [day |-> total \div 24, hour |-> total % 24]

RECURSIVE FirstNamed(_, _)
FirstNamed(items, key) ==
    IF items = <<>> THEN None
    ELSE IF Head(items).ElementName = key
         THEN LET val == Head(items).ElementValue
                  f == ToFloat(val)
              IN  IF f.ok THEN Num(f.n) ELSE val
         ELSE FirstNamed(Tail(items), key)

extract_weather_element(station_obj, key) ==
    LET we == station_obj.WeatherElement
    IN  CASE we.shape = "dict" ->
               IF key \in DOMAIN we.map THEN we.map[key] ELSE None
          [] we.shape = "list" -> FirstNamed(we.items, key)
          [] OTHER -> None

DictElement(temp, rh) ==
    [shape |-> "dict",
     map |-> [AirTemperature |-> temp, RelativeHumidity |-> rh]]

ListElement(temp, rh) ==
    [shape |-> "list",
     items |-> << [ElementName |-> "RelativeHumidity", ElementValue |-> rh],
                  [ElementName |-> "AirTemperature", ElementValue |-> temp] >>]

Station(id, dt, we) ==
    [StationId |-> id, ObsTime |-> [DateTime |-> dt], WeatherElement |-> we]

\* The station entries a payload is made of.
StationEntries ==
    { Station(STATION, Iso(1, 20, 0, 0), DictElement(Num(21), Num(60))),
      Station(STATION, Iso(2, 4, 30, 8), ListElement(Str("25"), Str("60"))),
      Station(STATION, Iso(1, 21, 0, 0), ListElement(Str("-99"), Str("-99"))),
      Station("467571", Iso(1, 21, 0, 0), DictElement(Num(21), Num(60))),
      Station(STATION, None, DictElement(Num(21), Num(60))),
      Station(STATION, Str("2024/05/01"), DictElement(Num(21), Num(60))),
      Station(STATION, Iso(1, 21, 0, 0), ListElement(Str("X"), Str("60"))) }

SeqsUpTo(S, n) == UNION { [1..k -> S] : k \in 0..n }

\* resp.json(): the Station list, a "records" without a Station list, or a
\* document whose "records" is null.
Payloads ==
    { [kind |-> "stations", Station |-> s] : s \in SeqsUpTo(StationEntries, MaxStations) }
    \cup { [kind |-> "not_list"], [kind |-> "no_records"] }

NoPayload == [kind |-> "none"]

\* One pass of the loop over stations: the row of an entry, or no row.
StationRow(st) ==
    LET obs_time == st.ObsTime.DateTime
        temp == ToFloat(extract_weather_element(st, "AirTemperature"))
        rh == ToFloat(extract_weather_element(st, "RelativeHumidity"))
    IN  IF st.StationId # STATION THEN <<>>
        ELSE IF obs_time.t = "none" THEN <<>>
        ELSE IF ~(temp.ok /\ rh.ok) THEN <<>>
        ELSE IF obs_time.t # "iso" THEN <<>>
        ELSE << [obs_date |-> LocalKey(obs_time),
                 temperature |-> temp.n, humidity |-> rh.n] >>

RECURSIVE StationRows(_)
StationRows(stations) ==
    IF stations = <<>> THEN <<>>
    ELSE StationRow(Head(stations)) \o StationRows(Tail(stations))

HasKey(table, key) == \E i \in 1..Len(table) : table[i].obs_date = key

\* INSERT into a table whose obs_date is not UNIQUE.
InsertPlain(table, row) == Append(table, row)

\* INSERT OR REPLACE: the stored row of the key gives way to the new one.
InsertOrReplace(table, row) ==
    LET Other(r) == r.obs_date # row.obs_date IN Append(SelectSeq(table, Other), row)

\* INSERT OR IGNORE INTO weather ... against obs_date TEXT UNIQUE
InsertOrIgnore(table, row) ==
    IF HasKey(table, row.obs_date) THEN table ELSE Append(table, row)

\* The loop of insert_to_db over rows: the table and the count of rowcount = 1.
RECURSIVE InsertRows(_, _, _)
InsertRows(table, rows, count) ==
    IF rows = <<>> THEN [table |-> table, inserted |-> count]
    ELSE LET next == InsertOrIgnore(table, Head(rows))
         IN  InsertRows(next, Tail(rows),
                        IF Len(next) = Len(table) + 1 THEN count + 1 ELSE count)

Time(n) == [t |-> "time", at |-> n]

\* datetime.now(): not before the time already recorded.
Now == { Time(n) : n \in 1..MaxTime }

NotBefore(now, seen) == IF seen.t = "none" THEN TRUE ELSE now.at >= seen.at

\* The document fetch_station_data() returns: the one the API keeps serving,
\* or any document when none is fixed.
Fetched == IF served = NoPayload THEN Payloads ELSE {served}

\* An except branch that also forgets the time of the last update.
RunFailsAndForgets(how) ==
    /\ stage' = how
    /\ last_update_time' = None
    /\ UNCHANGED <<cwb_weather, inserted>>

\* The try block's exit through "except Exception", and the rollback of the
\* with block when the exception comes from sqlite3.
RunFails(how) ==
    /\ stage' = how
    /\ UNCHANGED <<cwb_weather, last_update_time, inserted>>

\* insert_to_db(payload), as called in the try block of job_fetch_and_save.
insert_to_db(payload) ==
    LET rows == IF payload.kind = "stations" THEN StationRows(payload.Station) ELSE <<>>
        done == InsertRows(cwb_weather, rows, 0)
    IN  IF payload.kind = "no_records"
        THEN \* payload.get("records", {}) is None: .get raises AttributeError
             RunFails("parse_failed")
        ELSE IF rows = <<>>
        THEN \* return 0, at line 94 or line 128
             /\ stage' = "no_rows"
             /\ inserted' = Num(0)
             /\ UNCHANGED <<cwb_weather, last_update_time>>
        ELSE \/ RunFails("store_failed")
             \/ /\ stage' = "stored"
                /\ cwb_weather' = done.table
                /\ inserted' = Num(done.inserted)
                /\ \E now \in Now :
                     /\ NotBefore(now, last_update_time)
                     /\ last_update_time' = now

Failed == {"init_failed", "fetch_failed", "parse_failed", "store_failed"}

Returned == {"no_rows", "stored"}

\* job_fetch_and_save(): init_db, fetch_station_data, insert_to_db.
job_fetch_and_save ==
    \/ RunFails("init_failed")
    \/ RunFails("fetch_failed")
    \/ \E payload \in Fetched : insert_to_db(payload)

\* The scheduler's cron job: job_fetch_and_save returns None to it.
SchedulerTick ==
    /\ process = "CWB8.1"
    /\ job_fetch_and_save
    /\ caller' = "scheduler"
    /\ observed' = None
    /\ UNCHANGED <<process, served, csv_weather, upload, gdd>>

\* GET /fetch_now
fetch_now ==
    /\ process = "CWB8.1"
    /\ job_fetch_and_save
    /\ caller' = "fetch_now"
    /\ observed' = [t |-> "json", ok |-> TRUE, last_update_time |-> last_update_time']
    /\ UNCHANGED <<process, served, csv_weather, upload, gdd>>

(***************************************************************************)
(* weather_v8.1.py                                                         *)
(*                                                                         *)
(* A text is the sequence of its pieces, cut where the code looks into it: *)
(* "hsinchu-2024-05.csv" is <<"hsinchu", "-", "2024", "-", "05", ".csv">>. *)
(* The Chinese header words are written in pinyin: guanceshijian (obs.     *)
(* time), qiwen (air temperature), xiangduishidu (relative humidity),      *)
(* zuigao qiwen (highest temperature), zuidi qiwen (lowest temperature).   *)
(***************************************************************************)
MaxRows == 2

Extensions == {".csv", ".txt"}

\* os.path.splitext(filename)[0]
splitext(filename) ==
    IF filename # <<>> /\ filename[Len(filename)] \in Extensions
    THEN SubSeq(filename, 1, Len(filename) - 1)
    ELSE filename

\* f.filename.endswith(".csv")
EndsWithCsv(filename) == filename # <<>> /\ filename[Len(filename)] = ".csv"

\* name_part.split("-"): the texts between the dashes.
RECURSIVE SplitDash(_, _)
SplitDash(text, piece) ==
    IF text = <<>> THEN <<piece>>
    ELSE IF Head(text) = "-" THEN <<piece>> \o SplitDash(Tail(text), "")
    ELSE SplitDash(Tail(text), piece \o Head(text))

\* k in col
Contains(col, k) ==
    \E i \in 1..(Len(col) - Len(k) + 1) : SubSeq(col, i, i + Len(k) - 1) = k

\* The keyword lists of lines 63 to 67.
Logical == <<"obs_time", "temperature", "humidity", "tmax", "tmin">>

Keywords ==
    [obs_time |-> << <<"guanceshijian">>, <<"ObsTime">> >>,
     temperature |-> << <<"qiwen">>, <<"Temperature">> >>,
     humidity |-> << <<"xiangduishidu">>, <<"RH">> >>,
     tmax |-> << <<"zuigao", "qiwen">>, <<"T", " ", "Max">> >>,
     tmin |-> << <<"zuidi", "qiwen">>, <<"T", " ", "Min">> >>]

\* find_col(keywords): the first column that holds one of the keywords;
\* ok = FALSE is the KeyError.
RECURSIVE find_col(_, _)
find_col(keywords, columns) ==
    IF columns = <<>> THEN [ok |-> FALSE, col |-> <<>>]
    ELSE IF \E i \in 1..Len(keywords) : Contains(Head(columns), keywords[i])
         THEN [ok |-> TRUE, col |-> Head(columns)]
         ELSE find_col(keywords, Tail(columns))

\* The flattened two-row headers of a CODiS monthly report.
ColObs == <<"guanceshijian", "(day)", "_", "ObsTime">>

ColTemp == <<"qiwen", "(C)", "_", "Temperature">>

ColTmax == <<"zuigao", "qiwen", "(C)", "_", "T", " ", "Max">>

ColTmin == <<"zuidi", "qiwen", "(C)", "_", "T", " ", "Min">>

ColRH == <<"xiangduishidu", "(%)", "_", "RH">>

AllColumns == <<ColObs, ColTemp, ColTmax, ColTmin, ColRH>>

Without(columns, k) == [i \in 1..(Len(columns) - 1) |-> IF i < k THEN columns[i] ELSE columns[i + 1]]

\* The headers of the uploaded files: all five columns, or one of them absent.
Headers == {AllColumns} \cup { Without(AllColumns, k) : k \in 1..Len(AllColumns) }

\* What a file's lines hold, by column.
FieldOf ==
    (ColObs :> "obs_time") @@ (ColTemp :> "temperature") @@ (ColTmax :> "tmax")
    @@ (ColTmin :> "tmin") @@ (ColRH :> "humidity")

Line(day, temp, rh, tmax, tmin) ==
    [obs_time |-> day, temperature |-> temp, humidity |-> rh, tmax |-> tmax, tmin |-> tmin]

\* The lines of the uploaded files; the day cell is str(day_val).strip().split().
Lines ==
    { Line(<<"1">>, Num(20), Num(60), Num(30), Num(20)),
      Line(<<"x">>, Num(22), Num(65), Num(32), Num(22)),
      Line(<<"2", "*">>, Num(21), Num(70), Num(28), Num(18)),
      Line(<<"2">>, None, Num(70), Num(28), Num(18)) }

Table(columns, rows) == [kind |-> "table", columns |-> columns, rows |-> rows]

Unreadable == [kind |-> "unreadable"]

MonthFile == <<"hsinchu", "-", "2024", "-", "05", ".csv">>

Filenames ==
    { MonthFile,
      <<"hsinchu", "-", "2024", "-", "05", "-", "v2", ".csv">>,
      <<"hsinchu", "-", "2024", ".csv">>,
      <<"hsinchu", ".csv">>,
      <<"hsinchu", "-", "2024", "-", "05", ".txt">> }

File(filename, content) == [filename |-> filename, content |-> content]

\* The uploaded files: the month's report with all its columns and any lines,
\* a report with any header and at most one line, and a file of any name that
\* is a one-line report or cannot be read.
Uploads ==
    { File(MonthFile, Table(AllColumns, r)) : r \in SeqsUpTo(Lines, MaxRows) }
    \cup { File(MonthFile, Table(h, r)) : h \in Headers, r \in SeqsUpTo(Lines, 1) }
    \cup { File(n, c) : n \in Filenames,
                        c \in { Table(AllColumns, <<l>>) : l \in Lines } \cup {Unreadable} }

\* int(text)
IntText == ("1" :> 1) @@ ("2" :> 2)

\* f"{d:02d}"
Pad2(d) == IF d < 10 THEN "0" \o ToString(d) ELSE ToString(d)

\* build_date(day_val), with the year and month of the filename
build_date(cell, year, month) ==
    IF cell # <<>> /\ cell[1] \in DOMAIN IntText
    THEN year \o "-" \o month \o "-" \o Pad2(IntText[cell[1]])
    ELSE year \o "-" \o month \o "-" \o "01"

\* df_new: the five chosen columns of each line, obs_time turned into obs_date.
DfNew(rows, chosen, year, month) ==
    [i \in 1..Len(rows) |->
        [obs_date |-> build_date(rows[i][FieldOf[chosen.obs_time]], year, month),
         temperature |-> rows[i][FieldOf[chosen.temperature]],
         humidity |-> rows[i][FieldOf[chosen.humidity]],
         tmax |-> rows[i][FieldOf[chosen.tmax]],
         tmin |-> rows[i][FieldOf[chosen.tmin]]]]

HasNaN(r) ==
    \/ r.temperature.t = "none" \/ r.humidity.t = "none"
    \/ r.tmax.t = "none" \/ r.tmin.t = "none"

\* .dropna()
dropna(rows) == LET Full(r) == ~HasNaN(r) IN SelectSeq(rows, Full)

\* set(existing["obs_date"].tolist())
exist_set(table) == { table[i].obs_date : i \in 1..Len(table) }

\* df_new[~df_new["obs_date"].isin(exist_set)]
new_data(table, df_new) ==
    LET Absent(r) == r.obs_date \notin exist_set(table) IN SelectSeq(df_new, Absent)

\* new_data.to_sql("weather", conn, if_exists="append", index=False)
to_sql(table, rows) ==
    table \o [i \in 1..Len(rows) |->
                [obs_date |-> rows[i].obs_date, temperature |-> rows[i].temperature.n,
                 humidity |-> rows[i].humidity.n, tmax |-> rows[i].tmax.n,
                 tmin |-> rows[i].tmin.n]]

\* The logical columns no column of the header holds a keyword of.
Unlocated(columns) ==
    { Logical[c] : c \in { c \in 1..Len(Logical) :
        ~ \E i \in 1..Len(columns), k \in 1..Len(Keywords[Logical[c]]) :
             Contains(columns[i], Keywords[Logical[c]][k]) } }

\* How a call of process_csv ended: tokens is the number of dash-separated
\* tokens of the name, read whether pd.read_csv was called, missing the logical
\* columns the header lacks, and count the number the summary line prints.
Outcome(t, tokens, read, missing, count) ==
    [t |-> t, tokens |-> tokens, read |-> read, missing |-> missing, count |-> count]

NoUpload == Outcome("none", 0, FALSE, {}, 0)

\* len(df_new), the count of the summary line
Reported(df_new, added) == Len(df_new)

\* Lines 38 to 81 of process_csv, which read the file and not the database:
\* how they end (t = "frame": with df_new in rows) and what they found.
Frame(t, tokens, read, missing, rows) ==
    [t |-> t, tokens |-> tokens, read |-> read, missing |-> missing, rows |-> rows]

read_frame(filename, content) ==
    LET parts == SplitDash(splitext(filename), "")
    IN  IF Len(parts) < 3
        THEN \* IndexError: print and return
             Frame("format_error", Len(parts), FALSE, {}, <<>>)
        ELSE IF content.kind = "unreadable"
        THEN \* pd.read_csv raises: print and return
             Frame("read_error", Len(parts), TRUE, {}, <<>>)
        ELSE LET columns == content.columns
                 found == [c \in DOMAIN Keywords |-> find_col(Keywords[c], columns)]
                 chosen == [c \in DOMAIN Keywords |-> found[c].col]
             IN  IF \E c \in DOMAIN Keywords : ~found[c].ok
                 THEN \* KeyError: nothing catches it
                      Frame("raised", Len(parts), TRUE, Unlocated(columns), <<>>)
                 ELSE Frame("frame", Len(parts), TRUE, Unlocated(columns),
                            dropna(DfNew(content.rows, chosen, parts[2], parts[3])))

\* read_frame of every file of Uploads, worked out once.
Frames == [f \in Uploads |-> read_frame(f.filename, f.content)]

\* process_csv(filepath, filename): the table and the outcome.
process_csv(table, filename, content) ==
    LET frame == Frames[File(filename, content)]
        added == new_data(table, frame.rows)
    IN  IF frame.t # "frame"
        THEN [table |-> table,
              upload |-> Outcome(frame.t, frame.tokens, frame.read, frame.missing, 0)]
        ELSE [table |-> to_sql(table, added),
              upload |-> Outcome("imported", frame.tokens, frame.read, frame.missing,
                                 Reported(frame.rows, added))]

\* POST / with one file in request.files
index ==
    /\ process = "weather_v8.1"
    /\ \E f \in Uploads :
         IF EndsWithCsv(f.filename)
         THEN LET done == process_csv(csv_weather, f.filename, f.content)
              IN  /\ csv_weather' = done.table
                  /\ upload' = done.upload
         ELSE /\ upload' = Outcome("skipped", 0, FALSE, {}, 0)
              /\ UNCHANGED csv_weather
    /\ UNCHANGED <<process, cwb_weather, last_update_time, stage, inserted, caller,
                   observed, served, gdd>>

\* POST /clear
clear_data ==
    /\ process = "weather_v8.1"
    /\ csv_weather' = <<>>
    /\ upload' = Outcome("cleared", 0, FALSE, {}, 0)
    /\ UNCHANGED <<process, cwb_weather, last_update_time, stage, inserted, caller,
                   observed, served, gdd>>

(***************************************************************************)
(* gdd_compare.  A number with decimals is held in hundredths, so that     *)
(* round(x, 2) keeps a GDD sum (a multiple of 0.5) as it is.               *)
(***************************************************************************)
MaxSeries == 2

\* range(0, 21)
TbMax == 20

\* pd.to_datetime of a key or of a bound of the request: the day it names;
\* a text outside the domain names no day and pd.to_datetime raises.
DayOf == ("2024-05-01" :> 1) @@ ("2024-05-02" :> 2) @@ ("2024-05-03" :> 3)

Record(obs_date, temp, rh, tmax, tmin) ==
    [obs_date |-> obs_date, temperature |-> temp, humidity |-> rh,
     tmax |-> tmax, tmin |-> tmin]

\* Stored rows of earlier uploads: three days of May and a line whose day cell
\* read 32.
SeriesRows ==
    { Record("2024-05-01", 25, 60, 30, 20),
      Record("2024-05-02", 16, 65, 19, 12),
      Record("2024-05-03", 8, 70, 12, 4),
      Record("2024-05-32", 8, 70, 12, 4) }

\* The [start, end] pairs of a request.
Ranges ==
    { <<"2024-05-01", "2024-05-01">>,
      <<"2024-05-01", "2024-05-02">>,
      <<"2024-05-02", "2024-05-03">> }

\* ((tmax + tmin) / 2 - Tb).clip(lower=0), in hundredths
DayGdd(row, Tb) ==
    LET d == 50 * (row.tmax + row.tmin) - 100 * Tb
    IN  IF d < 0 THEN 0 ELSE d

\* calc_gdd(start, end) for the base temperature Tb, in hundredths
RECURSIVE calc_gdd(_, _, _, _)
calc_gdd(df, start, end, Tb) ==
    IF df = <<>> THEN 0
    ELSE (IF DayOf[Head(df).obs_date] >= DayOf[start] /\ DayOf[Head(df).obs_date] <= DayOf[end]
          THEN DayGdd(Head(df), Tb) ELSE 0)
         + calc_gdd(Tail(df), start, end, Tb)

\* The largest r with r * r <= n, for lo * lo <= n < hi * hi.
RECURSIVE Isqrt(_, _, _)
Isqrt(n, lo, hi) ==
    IF hi - lo <= 1 THEN lo
    ELSE LET mid == (lo + hi) \div 2
         IN  IF mid * mid <= n THEN Isqrt(n, mid, hi) ELSE Isqrt(n, lo, mid)

\* round(np.std([g1, g2, g3]), 2) in hundredths: the population deviation is
\* sqrt(3 * sum(g^2) - sum(g)^2) / 3, rounded to the nearest whole number
\* (it is never halfway between two).
Std(g1, g2, g3) ==
    LET n == 3 * (g1 * g1 + g2 * g2 + g3 * g3) - (g1 + g2 + g3) * (g1 + g2 + g3)
    IN  (Isqrt(4 * n, 0, 46340) + 3) \div 6

\* calc_gdd of every range a request can name and every Tb, worked out once
\* for the table read at line 129.
Sums(df) ==
    [r \in Ranges |-> [Tb \in 0..TbMax |-> calc_gdd(df, r[1], r[2], Tb)]]

\* The dictionary results.append(..) adds for Tb.
Entry(sums, r1, r2, r3, Tb) ==
    LET g1 == sums[r1][Tb]
        g2 == sums[r2][Tb]
        g3 == sums[r3][Tb]
    IN  [Tb |-> Tb, GDD1 |-> g1, GDD2 |-> g2, GDD3 |-> g3, std |-> Std(g1, g2, g3)]

\* A comparison that lets a later entry of equal spread replace the best one.
BetterOrEqual(x, best) == x.std <= best.std

\* The comparison of min(): a later entry replaces the best one only when
\* its key is smaller.
Better(x, best) == x.std < best.std

\* min(results, key=lambda x: x["std"]): the entries from the i-th on
\* against the best one so far.
RECURSIVE MinByStd(_, _, _)
MinByStd(results, i, best) ==
    IF i > Len(results) THEN best
    ELSE MinByStd(results, i + 1, IF Better(results[i], results[best]) THEN i ELSE best)

\* for Tb in range(0, 21): results.append(..)
Results(sums, r1, r2, r3) == [i \in 1..(TbMax + 1) |-> Entry(sums, r1, r2, r3, i - 1)]

\* POST /gdd_compare
gdd_compare ==
    /\ process = "weather_v8.1"
    /\ IF \E i \in 1..Len(csv_weather) : csv_weather[i].obs_date \notin DOMAIN DayOf
       THEN \* pd.to_datetime raises on a key that names no day
            \E r1 \in Ranges, r2 \in Ranges, r3 \in Ranges :
                gdd' = [t |-> "raised", request |-> <<r1, r2, r3>>]
       ELSE LET sums == Sums(csv_weather)
            IN  \E r1 \in Ranges, r2 \in Ranges, r3 \in Ranges :
                    LET results == Results(sums, r1, r2, r3)
                    IN  gdd' = [t |-> "json", request |-> <<r1, r2, r3>>,
                                table |-> results,
                                best |-> results[MinByStd(results, 2, 1)]]
    /\ UNCHANGED <<process, cwb_weather, last_update_time, stage, inserted, caller,
                   observed, served, csv_weather, upload>>

(***************************************************************************)
(* Specifications.                                                         *)
(***************************************************************************)
\* The start of a service: the program, the document the API keeps serving
\* if it is a fixed one, and the table weather_1021.db holds.  The globals of
\* CWB8.1.py are as the module sets them, and CWB.db is empty.
Start(programs, documents, tables) ==
    /\ process \in programs
    /\ served \in documents
    /\ csv_weather \in tables
    /\ cwb_weather = <<>>
    /\ last_update_time = None
    /\ stage = "none"
    /\ inserted = None
    /\ caller = "none"
    /\ observed = None
    /\ upload = NoUpload
    /\ gdd = None

Next == SchedulerTick \/ fetch_now \/ index \/ clear_data

\* Either service from its start on an empty database; the API may answer each
\* poll with any document.
Spec == Start({"CWB8.1", "weather_v8.1"}, {NoPayload}, {<<>>}) /\ [][Next]_vars

\* CWB8.1.py polling an API that keeps serving one document.
SpecSame == Start({"CWB8.1"}, Payloads, {<<>>}) /\ [][SchedulerTick \/ fetch_now]_vars

\* weather_v8.1.py answering /gdd_compare over a table earlier uploads left.
SpecGdd ==
    Start({"weather_v8.1"}, {NoPayload}, SeqsUpTo(SeriesRows, MaxSeries))
    /\ [][gdd_compare]_vars

(***************************************************************************)
(* Properties.                                                             *)
(***************************************************************************)
UniqueKeys(table) ==
    \A i \in 1..Len(table), j \in 1..Len(table) :
        i # j => table[i].obs_date # table[j].obs_date

\* C1: in each of the two stores no two stored records have the same
\* obs_key, whatever runs, uploads and clears came before, also when one
\* batch holds the key twice.
C1_ObsKeyUnique == UniqueKeys(cwb_weather) /\ UniqueKeys(csv_weather)

\* C2: when insert_to_db has returned for a payload and is called with the
\* same payload again, the second call returns 0 and leaves the stored
\* records as the first call left them.
C2_SecondIngestAddsNothing ==
    [][ (stage \in Returned /\ stage' \in Returned)
          => (inserted' = Num(0) /\ cwb_weather' = cwb_weather) ]_vars

\* C2: a payload with rows was ingested a second time and added nothing.
C2_Witness ==
    /\ served.kind = "stations"
    /\ stage = "stored"
    /\ inserted = Num(0)
    /\ cwb_weather # <<>>

\* C3: the inserted count an ingestion reports (the return of insert_to_db,
\* the count of process_csv's summary) is the number of records it added.
C3_CountIsAdded ==
    [][ /\ stage' \in Returned => inserted'.n = Len(cwb_weather') - Len(cwb_weather)
        /\ upload'.t = "imported" => upload'.count = Len(csv_weather') - Len(csv_weather)
      ]_vars

\* C4: last_update_time starts unknown; a run that fails at init, fetch,
\* parse or store leaves it as it was, and it changes only in a run that
\* completed its store write.
C4_TimeOnlyOnStore ==
    /\ last_update_time = None
    /\ [][ /\ stage' \in Failed => last_update_time' = last_update_time
           /\ last_update_time' # last_update_time => stage' = "stored" ]_vars

\* C4: a run failed after an earlier run had set the time, and the time stands.
C4_Witness == stage \in Failed /\ last_update_time # None

IsErrorOutcome(o) == IF o.t = "json" THEN ~o.ok ELSE FALSE

\* C5: when a run fails, what its caller (the scheduler or /fetch_now) gets
\* is an error outcome, never a success.
C5_FailureReported == stage \in Failed => IsErrorOutcome(observed)

\* C6: a CSV file that lacks one of the five logical columns is rejected
\* with a missing-column error: nothing is inserted, the store is unchanged,
\* and no exception leaves process_csv.
C6_MissingColumnRejected ==
    [][ upload'.missing # {}
          => /\ upload'.t \notin {"raised", "imported"}
             /\ upload'.count = 0
             /\ csv_weather' = csv_weather ]_vars

\* C7: the sweep's table has 21 entries, Tb = 0..20 in ascending order; best
\* is the entry of least spread, the one of lowest Tb among equals; when the
\* three ranges are one range every spread is 0 and best is the entry of Tb = 0.
C7_SweepBest ==
    gdd.t = "json" =>
        /\ Len(gdd.table) = 21
        /\ \A i \in 1..Len(gdd.table) : gdd.table[i].Tb = i - 1
        /\ \E i \in 1..Len(gdd.table) :
             /\ gdd.best = gdd.table[i]
             /\ \A j \in 1..Len(gdd.table) :
                  /\ gdd.table[j].std >= gdd.table[i].std
                  /\ gdd.table[j].std = gdd.table[i].std => j >= i
        /\ (gdd.request[1] = gdd.request[2] /\ gdd.request[2] = gdd.request[3])
             => /\ \A j \in 1..Len(gdd.table) : gdd.table[j].std = 0
                /\ gdd.best.Tb = 0

\* C7: a sweep whose least spread is shared by several Tb, the lowest of
\* them above 0.
C7_Witness ==
    /\ gdd.t = "json"
    /\ gdd.best.Tb > 0
    /\ \E j \in 1..Len(gdd.table) :
         gdd.table[j].Tb > gdd.best.Tb /\ gdd.table[j].std = gdd.best.std

Kept(old, new) ==
    /\ Len(new) >= Len(old)
    /\ \A i \in 1..Len(old) : new[i] = old[i]

\* C8: stored records are immutable: no run and no upload changes or removes
\* a stored record, also when it inserts a record of a stored key; records
\* leave a store only when the bulk clear removes all of them.
C8_StoredRecordsKept ==
    [][ /\ Kept(cwb_weather, cwb_weather')
        /\ Kept(csv_weather, csv_weather') \/ (upload'.t = "cleared" /\ csv_weather' = <<>>)
      ]_vars

\* C8: a batch whose every record had a stored key was written, and the
\* reading of 21 degrees stored first for its key is still there.
C8_Witness ==
    /\ stage = "stored"
    /\ inserted = Num(0)
    /\ \E i \in 1..Len(cwb_weather) :
         cwb_weather[i].obs_date = [day |-> 2, hour |-> 4] /\ cwb_weather[i].temperature = 21

\* C9: process_csv rejects a filename whose dash-separated token count is
\* not three, fewer or more, before it reads the file, and leaves the store
\* unchanged.
C9_TokenCountChecked ==
    [][ (upload'.t \in {"format_error", "read_error", "raised", "imported"}
           /\ upload'.tokens # 3)
          => /\ upload'.t = "format_error"
             /\ ~upload'.read
             /\ csv_weather' = csv_weather ]_vars

\* C10: no stored record of the API store holds the missing-data value as
\* its temperature or its humidity.
C10_NoMissingValueStored ==
    \A i \in 1..Len(cwb_weather) :
        /\ cwb_weather[i].temperature # MissingValue
        /\ cwb_weather[i].humidity # MissingValue

====
